---- MODULE Spec2Model ----
(***************************************************************************)
(* A model of the music-guessing game: the orchestrator (App.tsx: playlist *)
(* selection, the played set, play-again), the GamePlayer component (its   *)
(* state, its two effects, its handlers and what its render offers the     *)
(* user) and the score calculator.                                         *)
(*                                                                         *)
(* Time is counted in timer ticks: the interval callback adds 0.1 s, so a  *)
(* timer of n ticks is n/10 seconds.  Similarities are exact rationals,    *)
(* records [num, den] with 0 <= num <= den.                                *)
(***************************************************************************)
EXTENDS Integers, Sequences, FiniteSets, Bags, TLC

\* The state of App, of the GamePlayer and of usePlayer is the state of the
\* last render: what the page shows and what the handlers read.
VARIABLES
    \* App.tsx
    playlists,        \* "unloaded" | "summary" (no usable tracks.items) | "full"
                      \* | "failed" | "closed" (the page was left)
    currentTrack,     \* a track id, or NoTrack
    playedTracks,     \* set of track ids
    error,            \* App's error message
    pendingSelect,    \* bag of handlePlaylistSelect calls awaiting
                      \* getPlaylistTracks: [playlist, played]
    \* GamePlayer
    mounted,
    timer,            \* in ticks of 0.1 s
    isGuessing,
    titleGuess,
    artistGuess,
    result,           \* NoResult or [score, isCorrect]
    hasStartedPlaying,
    intervalRef,      \* intervalRef.current: 0 (undefined) or an interval id
    activeIntervals,  \* the interval ids the browser still fires
    pendingEffects,   \* the passive effects of the last commit that have
                      \* not run yet: [track, timer]
    queuedTicks,      \* updates of line 42 queued by the interval callback
                      \* and not rendered yet
    queued,           \* the other state updates queued and not rendered yet
    \* usePlayer
    isPlaying,
    isInitialized,
    playerError,
    pendingPlay,      \* playTrack promises not yet settled: [fresh, stale]
    pendingToggle,    \* handlePauseAndGuess calls awaiting togglePlayback
    \* GameContext
    gameHistory,
    \* observation
    roundSubmits,     \* handleSubmitGuess runs since mount / the last reset
    gameComplete,     \* the scores onGameComplete was called with
    onPlayAgainCalls, \* calls of the onPlayAgain prop
    ownPlayDone,      \* a playTrack issued for the current track since the
                      \* last reset has fulfilled
    simTitle,         \* score calculator inputs (score specification)
    simArtist

vars == << playlists, currentTrack, playedTracks, error, pendingSelect,
           mounted, timer, isGuessing, titleGuess, artistGuess, result,
           hasStartedPlaying, intervalRef, activeIntervals, pendingEffects,
           queuedTicks, queued, isPlaying, isInitialized, playerError,
           pendingPlay, pendingToggle,
           gameHistory, roundSubmits, gameComplete, onPlayAgainCalls,
           ownPlayDone, simTitle, simArtist >>

appVars    == << playlists, currentTrack, playedTracks, error, pendingSelect >>
roundVars  == << timer, isGuessing, titleGuess, artistGuess, result,
                 hasStartedPlaying >>
roundFlags == << isGuessing, titleGuess, artistGuess, result,
                 hasStartedPlaying >>
timerVars  == << intervalRef, activeIntervals, pendingEffects, queuedTicks >>
engineVars == << isPlaying, isInitialized, playerError, pendingPlay,
                 pendingToggle >>
scoreVars  == << simTitle, simArtist >>
callVars   == << gameComplete, onPlayAgainCalls >>

-----------------------------------------------------------------------------
(* Bounds of the model                                                     *)

MaxInFlight == 2      \* asynchronous calls in flight at one time
MaxTimer == 1         \* ticks the game model lets the timer reach
MaxHistory == 2       \* rounds scored in one run
SimDen == 10          \* similarities of the score specification: k / SimDen
MaxElapsed == 305     \* ticks the score specification lets the timer reach

(* Program constants                                                       *)

TicksPerSecond == 10  \* setTimer(prev => prev + 0.1)
BonusWindow == 30     \* timer / 30
SimilarityWeight == 80
TimeWeight == 20
ScoreScale == 100     \* (...) * 100
ThresholdNum == 8     \* similarity > 0.8
ThresholdDen == 10

-----------------------------------------------------------------------------
(* Score calculator                                                        *)

NoResult == [score |-> -1, isCorrect |-> FALSE, none |-> TRUE]

Rat(n, d) == [num |-> n, den |-> d]

Max(a, b) == IF a >= b THEN a ELSE b

\* Math.round of the non-negative rational n/d: floor(n/d + 1/2)
MathRound(n, d) == (2 * n + d) \div (2 * d)

\* Lines 63-69 of calculateScore, on the two similarities and the timer.
\*   averageSimilarity = (ts + as) / 2
\*   timeBonus         = max(0, 1 - timer/30)
\*   score             = round((averageSimilarity*80 + timeBonus*20) * 100)
\* with ts = ts.num/ts.den, as = as.num/as.den, timer = t/TicksPerSecond.
ScoreOfRising(ts, as, t) ==
    LET W == BonusWindow * TicksPerSecond
        S == ts.num * as.den + as.num * ts.den
        P == ts.den * as.den
        B == Max(0, t)
    IN  [score |-> MathRound(ScoreScale * (SimilarityWeight * S * W
                                            + TimeWeight * B * 2 * P),
                             2 * P * W),
         isCorrect |-> /\ ts.num * ThresholdDen > ThresholdNum * ts.den
                       /\ as.num * ThresholdDen > ThresholdNum * as.den,
         none |-> FALSE]

ScoreOfEitherCorrect(ts, as, t) ==
    LET W == BonusWindow * TicksPerSecond
        S == ts.num * as.den + as.num * ts.den
        P == ts.den * as.den
        B == Max(0, W - t)
    IN  [score |-> MathRound(ScoreScale * (SimilarityWeight * S * W
                                            + TimeWeight * B * 2 * P),
                             2 * P * W),
         isCorrect |-> \/ ts.num * ThresholdDen > ThresholdNum * ts.den
                       \/ as.num * ThresholdDen > ThresholdNum * as.den,
         none |-> FALSE]

-----------------------------------------------------------------------------
(* The arithmetic of lines 63-65 is that of JavaScript numbers, IEEE 754    *)
(* doubles: every operation returns its exact result rounded to 53          *)
(* significant bits, ties to even.  A non-negative double is kept as the    *)
(* number of units of 2^-FracBits it holds, written in base 2^LimbBits,     *)
(* least significant digit first, on NumLimbs digits.                       *)

LimbBits == 14
NumLimbs == 10
FracBits == 126
Mantissa == 53

Base == 2 ^ LimbBits

Limbs == 1..NumLimbs

\* the digits d[1], ..., d[NumLimbs] as a sequence
Digits(d) == SubSeq(d, 1, NumLimbs)

\* the integer n as a double
Scaled(n) == Digits([j \in Limbs |-> IF j = NumLimbs THEN n ELSE 0])

\* bit i of X, bit 1 the least significant
Bit(X, i) == (X[(i - 1) \div LimbBits + 1] \div (2 ^ ((i - 1) % LimbBits))) % 2

\* the carry into digit j of X + Y
RECURSIVE AddCarry(_, _, _)
AddCarry(X, Y, j) ==
    IF j = 1 THEN 0 ELSE (X[j - 1] + Y[j - 1] + AddCarry(X, Y, j - 1)) \div Base

AddLimbs(X, Y) ==
    Digits([j \in Limbs |-> (X[j] + Y[j] + AddCarry(X, Y, j)) % Base])

\* the borrow from digit j of X - Y
RECURSIVE SubBorrow(_, _, _)
SubBorrow(X, Y, j) ==
    IF j = 1 THEN 0
    ELSE IF X[j - 1] - Y[j - 1] - SubBorrow(X, Y, j - 1) < 0 THEN 1 ELSE 0

\* X - Y for X >= Y
SubLimbs(X, Y) ==
    Digits([j \in Limbs |-> (X[j] - Y[j] - SubBorrow(X, Y, j)) % Base])

\* the carry into digit j of X * c
RECURSIVE MulCarry(_, _, _)
MulCarry(X, c, j) ==
    IF j = 1 THEN 0 ELSE (X[j - 1] * c + MulCarry(X, c, j - 1)) \div Base

MulLimbs(X, c) ==
    Digits([j \in Limbs |-> (X[j] * c + MulCarry(X, c, j)) % Base])

\* long division by the integer d: what is left of the digits above j
RECURSIVE DivRemainder(_, _, _)
DivRemainder(X, d, j) ==
    IF j = NumLimbs THEN 0
    ELSE (DivRemainder(X, d, j + 1) * Base + X[j + 1]) % d

DivLimbs(X, d) ==
    Digits([j \in Limbs |-> (DivRemainder(X, d, j) * Base + X[j]) \div d])

\* the position of the leading 1 of X, 0 for zero
HighBit(X) ==
    LET ones == {i \in 1..(NumLimbs * LimbBits) : Bit(X, i) = 1}
    IN  IF ones = {} THEN 0 ELSE CHOOSE i \in ones : \A j \in ones : j <= i

\* X (followed below its last bit by something non-zero if `sticky`)
\* rounded to Mantissa significant bits, ties to even
RoundToDouble(X, sticky) ==
    LET k == HighBit(X) - Mantissa
    IN  IF k <= 0 THEN X
        ELSE LET low  == k \div LimbBits
                 cut  == 2 ^ (k % LimbBits)
                 kept == Digits([j \in Limbs |->
                                    IF j <= low THEN 0
                                    ELSE IF j = low + 1
                                         THEN X[j] - (X[j] % cut)
                                         ELSE X[j]])
                 unit == Digits([j \in Limbs |->
                                    IF j = low + 1 THEN cut ELSE 0])
                 rest == sticky \/ \E i \in 1..(k - 1) : Bit(X, i) = 1
                 up   == Bit(X, k) = 1 /\ (rest \/ Bit(X, k + 1) = 1)
             IN  IF up THEN AddLimbs(kept, unit) ELSE kept

AddD(X, Y) == RoundToDouble(AddLimbs(X, Y), FALSE)

MulD(X, c) == RoundToDouble(MulLimbs(X, c), FALSE)

DivD(X, d) == RoundToDouble(DivLimbs(X, d), DivRemainder(X, d, 0) # 0)

\* X >= Y
AtLeast(X, Y) ==
    \A j \in Limbs : (X[j] < Y[j]) => \E h \in (j + 1)..NumLimbs : X[h] > Y[h]

\* the double of the literal 0.1 (line 42)
Tenth == DivD(Scaled(1), TicksPerSecond)

\* X after t more interval callbacks: X + 0.1 + ... + 0.1 (line 42); each
\* sum is worked out before the next one starts from it
RECURSIVE TimerSteps(_, _)
TimerSteps(X, t) ==
    IF t = 0 THEN X
    ELSE LET next == AddD(X, Tenth)
         IN  IF AtLeast(next, X) THEN TimerSteps(next, t - 1) ELSE X

\* the additions are worked out TimerRun at a time
TimerRun == 16

\* the timer after t more interval callbacks, from X
RECURSIVE TimerD(_, _)
TimerD(X, t) ==
    IF t <= TimerRun THEN TimerSteps(X, t)
    ELSE LET next == TimerSteps(X, TimerRun)
         IN  IF AtLeast(next, X) THEN TimerD(next, t - TimerRun) ELSE X

\* Math.round of a non-negative double below Base: floor(x + 0.5)
MathRoundD(X) == X[NumLimbs] + Bit(X, FracBits)

\* lines 63-65 in doubles, for the similarities ts and as (the doubles of
\* their quotients) and the timer after t interval callbacks
DoubleScore(ts, as, t) ==
    LET a   == DivD(Scaled(ts.num), ts.den)
        b   == DivD(Scaled(as.num), as.den)
        avg == DivD(AddD(a, b), 2)
        q   == DivD(TimerD(Scaled(0), t), BonusWindow)
        tb  == IF AtLeast(q, Scaled(1)) THEN Scaled(0)
               ELSE RoundToDouble(SubLimbs(Scaled(1), q), FALSE)
    IN  MathRoundD(MulD(AddD(MulD(avg, SimilarityWeight),
                             MulD(tb, TimeWeight)),
                        ScoreScale))

\* the exact value n/d lies half-way between two integers
IsTie(n, d) == (2 * n) % d = 0 /\ ((2 * n) \div d) % 2 = 1

RECURSIVE GCD(_, _)
GCD(a, b) == IF b = 0 THEN a ELSE GCD(b, a % b)

\* calculateScore, lines 61-69.  Line 65 in exact arithmetic is
\*   ScoreScale * (SimilarityWeight * S / (2 * P) + TimeWeight * B / W),
\* written below as one fraction N / D in lowest weights.  The double of
\* line 65 is within 10^-9 of N / D, and N / D is at least 1 / (2 * D) from
\* the nearest half unless it is one, so Math.round of the double is the
\* rounding of N / D unless N / D lies half-way between two integers; there
\* the double decides.
ScoreOf(ts, as, t) ==
    LET W == BonusWindow * TicksPerSecond
        S == ts.num * as.den + as.num * ts.den
        P == ts.den * as.den
        B == Max(0, W - t)
        g == GCD(ScoreScale * TimeWeight, W)
        h == GCD(ScoreScale * SimilarityWeight, 2)
        N == ((ScoreScale * SimilarityWeight) \div h) * S * (W \div g)
                 + ((ScoreScale * TimeWeight) \div g) * B * (2 \div h) * P
        D == (2 \div h) * P * (W \div g)
    IN  [score |-> IF IsTie(N, D) THEN DoubleScore(ts, as, t)
                   ELSE MathRound(N, D),
         isCorrect |-> /\ ts.num * ThresholdDen > ThresholdNum * ts.den
                       /\ as.num * ThresholdDen > ThresholdNum * as.den,
         none |-> FALSE]

-----------------------------------------------------------------------------
(* Similarity scorer (utils/similarity): case- and whitespace-insensitive, *)
(* 1 on equal strings, 0 when exactly one side is empty, otherwise         *)
(* 1 - editDistance / max(length).  Strings are sequences of characters.   *)

Lower(c) == IF c = "A" THEN "a" ELSE IF c = "B" THEN "b" ELSE c

RECURSIVE TrimLeft(_)
TrimLeft(s) == IF s # << >> /\ Head(s) = " " THEN TrimLeft(Tail(s)) ELSE s

RECURSIVE TrimRight(_)
TrimRight(s) ==
    IF s # << >> /\ s[Len(s)] = " " THEN TrimRight(SubSeq(s, 1, Len(s) - 1))
    ELSE s

Normalize(s) ==
    LET t == TrimRight(TrimLeft(s)) IN [i \in 1..Len(t) |-> Lower(t[i])]

Min3(a, b, c) ==
    IF a <= b /\ a <= c THEN a ELSE IF b <= c THEN b ELSE c

RECURSIVE EditDistance(_, _)
EditDistance(a, b) ==
    IF a = << >> THEN Len(b)
    ELSE IF b = << >> THEN Len(a)
    ELSE Min3(EditDistance(Tail(a), b) + 1,
              EditDistance(a, Tail(b)) + 1,
              EditDistance(Tail(a), Tail(b))
                  + (IF Head(a) = Head(b) THEN 0 ELSE 1))

calculateSimilarity(a, b) ==
    LET s1 == Normalize(a)
        s2 == Normalize(b)
        m  == Max(Len(s1), Len(s2))
    IN  IF s1 = s2 THEN Rat(1, 1)
        ELSE IF s1 = << >> \/ s2 = << >> THEN Rat(0, 1)
        ELSE Rat(m - EditDistance(s1, s2), m)

-----------------------------------------------------------------------------
(* The catalogue: what getUserPlaylists and getPlaylistTracks return       *)

NoTrack == 0                       \* currentTrack = null
NoError == "none"
TrackIds == {1, 2}
InvalidItem == 3                    \* an item validateTrack rejects
PlaylistIds == {1, 2}

\* response.items.map(item => item.track) of getPlaylistTracks(p)
PlaylistItems(p) == {t \in TrackIds : t <= p} \cup {InvalidItem}

\* utils/validators
validateTrack(t) == t \in TrackIds

\* track.name and track.artists[0].name
TrackName(t) == IF t % 2 = 1 THEN << "a", "b" >> ELSE << "b", "a" >>
ArtistName(t) == << "a", "b" >>

\* what the user may type into either input
GuessStrings == { << >>, << "A", "b", " " >> }

-----------------------------------------------------------------------------
(* GamePlayer: what the render offers (lines 98-191)                       *)

\* the branch of the render that shows the game (not the error, not the
\* "Initializing player..." loader)
PlayerShown == mounted /\ playerError = NoError /\ isInitialized

\* the "Pause and Guess" / "Play" button, lines 178-186
PauseButtonShown == PlayerShown /\ result = NoResult /\ ~isGuessing

\* the two inputs and "Submit Guess", lines 145-177
GuessFormShownNoResultCheck == PlayerShown /\ isGuessing

GuessFormShown == PlayerShown /\ result = NoResult /\ isGuessing

\* "Play Again", lines 108-137
PlayAgainShown == PlayerShown /\ result # NoResult

-----------------------------------------------------------------------------
(* Updates queued and not yet rendered                                     *)
(*                                                                         *)
(* A state update made outside an event handler (by a promise callback, by *)
(* the engine's hook, by the interval callback) is only queued: React      *)
(* renders it in a later task, together with every other update queued by  *)
(* then.  Until that render the component's state, what the page shows and *)
(* what the handlers read is that of the last render.  `queued` holds, for *)
(* each piece of state, << >> if no update of it is queued and << v >> if  *)
(* the updates queued leave it at v; queuedTicks counts the updates of     *)
(* line 42.                                                               *)

NoneQueued ==
    [playlists |-> << >>, track |-> << >>, played |-> << >>,
     error |-> << >>, started |-> << >>, guessing |-> << >>,
     playing |-> << >>, init |-> << >>, playerError |-> << >>]

\* the value a piece of state has once the queued updates are rendered
Latest(q, rendered) == IF q = << >> THEN rendered ELSE q[1]

\* the queue of a piece of state after set(v): setting the value the render
\* already has leaves nothing to render
Put(v, rendered) == IF v = rendered THEN << >> ELSE << v >>

LatestTrack == Latest(queued.track, currentTrack)
LatestPlayed == Latest(queued.played, playedTracks)
LatestError == Latest(queued.error, error)
LatestPlaying == Latest(queued.playing, isPlaying)
LatestInitialized == Latest(queued.init, isInitialized)
LatestPlayerError == Latest(queued.playerError, playerError)

-----------------------------------------------------------------------------
(* GamePlayer: the effects                                                 *)
(*                                                                         *)
(* The effects are passive (useEffect): a commit only schedules them.      *)
(* They run in the same task when the commit comes from a click; after the *)
(* render of queued updates they may run in a later task, and the interval *)
(* callback or a click may come first.  React runs the effects still       *)
(* pending before it renders the next update.                              *)

\* the condition of the timer effect, line 40, on the values of a render
TimerCondition(playing, started, guessing, res) ==
    playing /\ started /\ ~guessing /\ res = NoResult

NoEffects == [track |-> FALSE, timer |-> FALSE]

\* intervalRef.current and the intervals the browser still fires
Timers == [ref |-> intervalRef, active |-> activeIntervals]

\* if (intervalRef.current) window.clearInterval(intervalRef.current)
Cleared(tm) == [tm EXCEPT !.active = @ \ {tm.ref}]

\* the id window.setInterval returns: one no active interval has (the least
\* such id: ids of cleared intervals are dead, so which one is taken makes
\* no difference)
FreshInterval(active) ==
    CHOOSE i \in 1..(Cardinality(active) + 1) :
        /\ i \notin active
        /\ \A j \in 1..(i - 1) : j \in active

\* The timer effect, lines 39-53, run for a commit that changed one of its
\* dependencies: the cleanup of the previous run (lines 48-52), then the
\* body on `cond`, line 40 on the values of the commit.
TimerEffect(cond, tm) ==
    IF cond
    THEN LET id == FreshInterval(Cleared(tm).active)
         IN  [ref |-> id, active |-> Cleared(tm).active \cup {id}]
    ELSE Cleared(Cleared(tm))

\* The effects `pe` of one commit run on the timers: the cleanup of the
\* first effect (lines 32-36) if `track` or `isInitialized` changed, and the
\* timer effect if one of its dependencies changed.
RunEffects(pe, cond, tm) ==
    LET t1 == IF pe.track THEN Cleared(tm) ELSE tm
    IN  IF pe.timer THEN TimerEffect(cond, t1) ELSE t1

\* The playTrack promises in flight: `fresh` says that the one issued by the
\* last run of the first effect since the last reset is among them, `stale`
\* counts the ones issued before (for an earlier track or an earlier round).
NoPlay == [fresh |-> FALSE, stale |-> 0]

PlayCount(pending) == pending.stale + (IF pending.fresh THEN 1 ELSE 0)

\* the render of the queued updates runs the first effect with the player
\* initialized: playTrack is about to be called
RenderPlays ==
    (queued.track # << >> \/ queued.init # << >>) /\ LatestInitialized

\* the asynchronous calls in flight: getPlaylistTracks, playTrack (the ones
\* a pending first effect and the render of the queued updates are about to
\* issue included) and togglePlayback
InFlight ==
    BagCardinality(pendingSelect) + PlayCount(pendingPlay) + pendingToggle
        + (IF pendingEffects.track /\ isInitialized THEN 1 ELSE 0)
        + (IF RenderPlays THEN 1 ELSE 0)

\* every promise issued so far belongs to an earlier round or track
Stale(pending) == [fresh |-> FALSE, stale |-> PlayCount(pending)]

\* playTrack(track) is called
Issued(pending) == [Stale(pending) EXCEPT !.fresh = TRUE]

\* the body of the first effect, lines 27-31, if the effects `pe` hold it
PlayAfter(pe, init, pending) ==
    IF ~pe.track THEN pending
    ELSE IF init THEN Issued(pending) ELSE Stale(pending)

\* the timers and the playTrack promises once the pending effects have run,
\* on the values of the commit that scheduled them (the current ones)
Flushed ==
    RunEffects(pendingEffects,
               TimerCondition(isPlaying, hasStartedPlaying, isGuessing,
                              result),
               Timers)

FlushedPlay == PlayAfter(pendingEffects, isInitialized, pendingPlay)

\* A commit: the effects still pending run first; the effects `pe` of the
\* commit itself run with it (on `cond` and `init`, the values of the
\* commit) unless they are deferred.  `play` is what the step itself leaves
\* of the playTrack promises.  Effects that would change neither the timers
\* nor the promises are not kept pending: whenever they run, they find the
\* same values and do nothing.
Commit(defer, pe, cond, init, play) ==
    LET idle == /\ RunEffects(pe, cond, Flushed) = Flushed
                /\ PlayAfter(pe, init, play) = play
        later == defer /\ ~idle
        tm == IF later THEN Flushed ELSE RunEffects(pe, cond, Flushed)
    IN  /\ intervalRef' = tm.ref
        /\ activeIntervals' = tm.active
        /\ pendingPlay' = IF later THEN play ELSE PlayAfter(pe, init, play)
        /\ pendingEffects' = IF later THEN pe ELSE NoEffects

\* a commit that changes no dependency of an effect
Rerender == Commit(FALSE, NoEffects, FALSE, isInitialized, FlushedPlay)

\* The updates of a click or of a key are rendered at once, on their own:
\* the updates queued outside event handlers wait for their render.
KeepQueued == UNCHANGED << timer, queuedTicks, queued >>

-----------------------------------------------------------------------------
(* Initial state: the App is constructed, nothing is fetched, no track is  *)
(* chosen and the GamePlayer is not mounted yet.                           *)

Init ==
    /\ playlists = "unloaded"
    /\ currentTrack = NoTrack
    /\ playedTracks = {}
    /\ error = NoError
    /\ pendingSelect = EmptyBag
    /\ mounted = FALSE
    /\ timer = 0
    /\ isGuessing = FALSE
    /\ titleGuess = << >>
    /\ artistGuess = << >>
    /\ result = NoResult
    /\ hasStartedPlaying = FALSE
    /\ intervalRef = 0
    /\ activeIntervals = {}
    /\ pendingEffects = NoEffects
    /\ queuedTicks = 0
    /\ queued = NoneQueued
    /\ isPlaying = FALSE
    /\ isInitialized = FALSE
    /\ playerError = NoError
    /\ pendingPlay = NoPlay
    /\ pendingToggle = 0
    /\ gameHistory = << >>
    /\ roundSubmits = 0
    /\ gameComplete = << >>
    /\ onPlayAgainCalls = 0
    /\ ownPlayDone = FALSE
    /\ simTitle = Rat(0, 1)
    /\ simArtist = Rat(0, 1)

-----------------------------------------------------------------------------
(* App.tsx                                                                 *)

\* What getUserPlaylists may return: playlists that carry tracks.items
\* ("full"), playlists with only a summary of their tracks ("summary":
\* tracks.items is undefined), or playlists whose items begin with an entry
\* that has no track object ("nulls": { track: null }).
PlaylistKinds == {"summary", "full", "nulls"}

\* What lines 62-64 can make of the playlists: with "full" ones find() walks
\* the items; with the others it finds no playlist, because items?.some is
\* undefined ("summary") or because item.track.id throws ("nulls").  The
\* state keeps that one distinction.
Embedded(kind) == IF kind = "full" THEN "full" ELSE "summary"

\* getUserPlaylists has not settled yet
PlaylistsAwaited == playlists = "unloaded" /\ queued.playlists = << >>

\* The mount effect, lines 21-29: getUserPlaylists fulfils and setPlaylists
\* is queued.
PlaylistsLoaded(kind) ==
    /\ PlaylistsAwaited
    /\ queued' = [queued EXCEPT !.playlists = << Embedded(kind) >>]
    /\ UNCHANGED << appVars, mounted, roundVars, timerVars, engineVars,
                    gameHistory, roundSubmits, scoreVars, callVars,
                    ownPlayDone >>

\* The mount effect, lines 30-33: getUserPlaylists rejects and setError is
\* queued.
PlaylistsFailed ==
    /\ PlaylistsAwaited
    /\ queued' = [queued EXCEPT
                     !.playlists = << "failed" >>,
                     !.error = Put("Failed to load playlists. Please try again.",
                                   error)]
    /\ UNCHANGED << appVars, mounted, roundVars, timerVars, engineVars,
                    gameHistory, roundSubmits, scoreVars, callVars,
                    ownPlayDone >>

\* handlePlaylistSelect up to its await, lines 37-39: the call is in flight
\* and holds the playedTracks of the render that created the handler.
StartSelect(p) ==
    pendingSelect (+) SetToBag({[playlist |-> p, played |-> playedTracks]})

\* pages/Home: the playlist list is on the page while no track is chosen; once
\* one is, the GamePlayer (a full-page view) takes its place.
PlaylistListShown ==
    playlists \in {"summary", "full"} /\ currentTrack = NoTrack

\* The user picks a playlist of the list (onPlaylistSelect).  No state is
\* set, so nothing is rendered.
handlePlaylistSelect(p) ==
    /\ PlaylistListShown
    /\ InFlight < MaxInFlight
    /\ pendingSelect' = StartSelect(p)
    /\ UNCHANGED << playlists, currentTrack, playedTracks, error, mounted,
                    roundVars, timerVars, queued, engineVars, gameHistory,
                    roundSubmits, scoreVars, callVars, ownPlayDone >>

\* lines 40-43 with the filter on the played set left out
ValidTracksUnfiltered(call) ==
    {t \in PlaylistItems(call.playlist) : validateTrack(t)}

\* lines 40-43: the valid tracks of the response the call does not hold as
\* played
ValidTracks(call) ==
    {t \in PlaylistItems(call.playlist) :
        validateTrack(t) /\ t \notin call.played}

\* line 53 left out
ErrorAfterSelectKept == LatestError

\* line 53: setError(null)
ErrorAfterSelect == NoError

\* line 52 with the played set of the call's closure in place of prev
PlayedAfterSelectFromClosure(call, t) == call.played \cup {t}

\* line 52: setPlayedTracks(prev => new Set([...prev, randomTrack.id])), on
\* the set the updates queued before it leave
PlayedAfterSelect(call, t) == LatestPlayed \cup {t}

\* getPlaylistTracks fulfils for a call in flight, lines 40-53: the message
\* of line 46, or the updates of lines 51-53, are queued.  The track of line
\* 51 is a new object, whatever its id.
SelectResolved(call) ==
    /\ BagIn(call, pendingSelect)
    /\ pendingSelect' = pendingSelect (-) SetToBag({call})
    /\ IF ValidTracks(call) = {}
       THEN queued' = [queued EXCEPT
                          !.error =
                              Put("No more unplayed tracks in this playlist!",
                                  error)]
       ELSE \E t \in ValidTracks(call) :
               queued' = [queued EXCEPT
                             !.track = << t >>,
                             !.played = Put(PlayedAfterSelect(call, t),
                                            playedTracks),
                             !.error = Put(ErrorAfterSelect, error)]
    /\ UNCHANGED << playlists, currentTrack, playedTracks, error, mounted,
                    roundVars, timerVars, engineVars, gameHistory,
                    roundSubmits, scoreVars, callVars, ownPlayDone >>

\* getPlaylistTracks rejects for a call in flight, lines 54-57.
SelectRejected(call) ==
    /\ BagIn(call, pendingSelect)
    /\ pendingSelect' = pendingSelect (-) SetToBag({call})
    /\ queued' = [queued EXCEPT
                     !.error = Put("Failed to load tracks. Please try again.",
                                   error)]
    /\ UNCHANGED << playlists, currentTrack, playedTracks, error, mounted,
                    roundVars, timerVars, engineVars, gameHistory,
                    roundSubmits, scoreVars, callVars, ownPlayDone >>

\* App's handlePlayAgain, lines 60-69: the first playlist whose embedded
\* tracks.items holds the current track, if find() can walk the items: with
\* items absent nothing is found, and with an item whose track is null ahead
\* of the current track item.track.id of line 63 throws.
CurrentPlaylist ==
    IF playlists = "full" /\ currentTrack # NoTrack
    THEN {p \in PlaylistIds :
            /\ currentTrack \in PlaylistItems(p)
            /\ \A q \in PlaylistIds :
                  currentTrack \in PlaylistItems(q) => p <= q}
    ELSE {}

-----------------------------------------------------------------------------
(* usePlayer: the playback engine as the GamePlayer sees it.  The hook's    *)
(* isPlaying, isInitialized and error are state of the component like its  *)
(* own: an update of them is queued and rendered with the others.          *)

\* usePlayer: the player is ready, isInitialized is true
InitializedAfterReady == TRUE

\* usePlayer: playTrack fulfilled, the engine plays
PlayingAfterPlayTrack == TRUE

\* usePlayer: togglePlayback fulfilled, playback is paused if it was on and
\* resumed if it was off
PlayingAfterToggle == ~LatestPlaying

\* usePlayer: the `error` the hook exposes once the engine has failed
EngineError == "playback error"

\* The player becomes ready: the hook sets isInitialized.
PlayerReady ==
    /\ mounted /\ ~LatestInitialized
    /\ InFlight < MaxInFlight
    /\ queued' = [queued EXCEPT
                     !.init = Put(InitializedAfterReady, isInitialized)]
    /\ UNCHANGED << appVars, mounted, roundVars, timerVars, engineVars,
                    gameHistory, roundSubmits, scoreVars, callVars,
                    ownPlayDone >>

\* The engine reports an error (its observable field `error`) on its own,
\* while playback of the round has not started; later errors come from the
\* calls that reject.
PlayerError ==
    /\ mounted /\ LatestPlayerError = NoError
    /\ ~hasStartedPlaying /\ ~isGuessing /\ result = NoResult
    /\ queued' = [queued EXCEPT !.playerError = Put(EngineError, playerError)]
    /\ UNCHANGED << appVars, mounted, roundVars, timerVars, engineVars,
                    gameHistory, roundSubmits, scoreVars, callVars,
                    ownPlayDone >>

\* line 29: setHasStartedPlaying(true)
StartedAfterPlay == TRUE

\* the promises in flight with one settled, a stale one or the fresh one
Settled(pending, stale) ==
    IF stale THEN [pending EXCEPT !.stale = @ - 1]
    ELSE [pending EXCEPT !.fresh = FALSE]

CanSettle(pending, stale) ==
    IF stale THEN pending.stale > 0 ELSE pending.fresh

\* A playTrack promise fulfils: the engine is playing, and the .then
\* callback of lines 28-30 runs; the updates are queued.  The promise is the
\* one of the current track unless it is stale or the first effect of the
\* current track is still pending.
PlayTrackResolved(stale) ==
    /\ CanSettle(pendingPlay, stale)
    /\ pendingPlay' = Settled(pendingPlay, stale)
    /\ queued' = [queued EXCEPT
                     !.playing = Put(PlayingAfterPlayTrack, isPlaying),
                     !.started = Put(StartedAfterPlay, hasStartedPlaying)]
    /\ ownPlayDone' = (ownPlayDone \/ (~stale /\ ~pendingEffects.track))
    /\ UNCHANGED << appVars, mounted, roundVars, timerVars, isPlaying,
                    isInitialized, playerError, pendingToggle, gameHistory,
                    roundSubmits, scoreVars, callVars >>

\* A playTrack promise rejects: no callback runs (line 28 has no catch); the
\* engine exposes the error.
PlayTrackRejected(stale) ==
    /\ CanSettle(pendingPlay, stale)
    /\ pendingPlay' = Settled(pendingPlay, stale)
    /\ queued' = [queued EXCEPT !.playerError = Put(EngineError, playerError)]
    /\ UNCHANGED << appVars, mounted, roundVars, timerVars, isPlaying,
                    isInitialized, playerError, pendingToggle, gameHistory,
                    roundSubmits, scoreVars, callVars, ownPlayDone >>

-----------------------------------------------------------------------------
(* GamePlayer: the handlers                                                *)

\* handlePauseAndGuess up to its await, lines 55-56: the button is clicked
\* and togglePlayback() is called.  No state is set, so nothing is rendered
\* and effects still pending stay pending.
handlePauseAndGuess ==
    /\ PauseButtonShown
    /\ InFlight < MaxInFlight
    /\ pendingToggle' = pendingToggle + 1
    /\ UNCHANGED << appVars, mounted, roundVars, timerVars, queued,
                    isPlaying, isInitialized, playerError, pendingPlay,
                    gameHistory, roundSubmits, scoreVars, callVars,
                    ownPlayDone >>

\* togglePlayback fulfils: the engine's playback is toggled, and line 57
\* runs: setIsGuessing(true) is queued.
TogglePlaybackDone ==
    /\ pendingToggle > 0
    /\ pendingToggle' = pendingToggle - 1
    /\ queued' = [queued EXCEPT
                     !.playing = Put(PlayingAfterToggle, isPlaying),
                     !.guessing = Put(TRUE, isGuessing)]
    /\ UNCHANGED << appVars, mounted, roundVars, timerVars, isPlaying,
                    isInitialized, playerError, pendingPlay, gameHistory,
                    roundSubmits, scoreVars, callVars, ownPlayDone >>

\* togglePlayback rejects: line 57 does not run.
TogglePlaybackFailed ==
    /\ pendingToggle > 0
    /\ pendingToggle' = pendingToggle - 1
    /\ UNCHANGED << appVars, mounted, roundVars, timerVars, queued,
                    isPlaying, isInitialized, playerError, pendingPlay,
                    gameHistory, roundSubmits, scoreVars, callVars,
                    ownPlayDone >>

\* onChange of the title input, line 154
setTitleGuess(s) ==
    /\ GuessFormShown
    /\ titleGuess # s
    /\ titleGuess' = s
    /\ Rerender
    /\ KeepQueued
    /\ UNCHANGED << appVars, mounted, isGuessing, artistGuess, result,
                    hasStartedPlaying, isPlaying, isInitialized, playerError,
                    pendingToggle, gameHistory, roundSubmits, scoreVars,
                    callVars, ownPlayDone >>

\* onChange of the artist input, line 166
setArtistGuess(s) ==
    /\ GuessFormShown
    /\ artistGuess # s
    /\ artistGuess' = s
    /\ Rerender
    /\ KeepQueued
    /\ UNCHANGED << appVars, mounted, isGuessing, titleGuess, result,
                    hasStartedPlaying, isPlaying, isInitialized, playerError,
                    pendingToggle, gameHistory, roundSubmits, scoreVars,
                    callVars, ownPlayDone >>

\* calculateScore, lines 60-70, on the component's state and its track
calculateScore ==
    ScoreOf(calculateSimilarity(titleGuess, TrackName(currentTrack)),
            calculateSimilarity(artistGuess, ArtistName(currentTrack)),
            timer)

\* the entry of lines 77-85 with the `result` of the component's state in
\* place of the local one of line 73
HistoryEntryOfState(res) ==
    [trackId |-> currentTrack, score |-> result.score, time |-> timer]

\* the entry handed to addGameResult, lines 77-85, for the result `res` of
\* line 73 (the fields the model keeps: trackId, score, time)
HistoryEntry(res) ==
    [trackId |-> currentTrack, score |-> res.score, time |-> timer]

\* the rounds scored so far leave room for another one within `max`
RoundsLeft(max) == Len(gameHistory) < max

\* addGameResult of context/GameContext, the Game History Recorder:
\* record(entry) appends the entry to the session's list.
addGameResult(history, entry) == Append(history, entry)

\* handleSubmitGuess, lines 72-86: the result is stored, onGameComplete is
\* called with the score and the round is handed to addGameResult; the
\* timer effect runs on the new result, in the task of the click.
handleSubmitGuess ==
    /\ GuessFormShown
    /\ result' = calculateScore
    /\ gameHistory' = addGameResult(gameHistory, HistoryEntry(result'))
    /\ roundSubmits' = roundSubmits + 1
    /\ Commit(FALSE, [track |-> FALSE, timer |-> TRUE],
              TimerCondition(isPlaying, hasStartedPlaying, isGuessing,
                             result'),
              isInitialized, FlushedPlay)
    /\ gameComplete' = Append(gameComplete, result'.score)
    /\ KeepQueued
    /\ UNCHANGED << appVars, mounted, isGuessing, titleGuess,
                    artistGuess, hasStartedPlaying, isPlaying, isInitialized,
                    playerError, pendingToggle, scoreVars, onPlayAgainCalls,
                    ownPlayDone >>

\* line 94 left out of handlePlayAgain
StartedAfterResetKept == hasStartedPlaying

\* line 94: setHasStartedPlaying(false)
StartedAfterReset == FALSE

\* handlePlayAgain, lines 88-96: the round's state is reset and onPlayAgain
\* (App's handlePlayAgain, lines 60-69) starts a selection on the playlist
\* it finds for the current track, if it finds one; the timer effect runs
\* in the task of the click.  An update of the timer, of isGuessing or of
\* hasStartedPlaying still queued is ahead of the update of the click in
\* the queue of its state: its render applies it and then the update of the
\* click again, and the state stays as the click set it.
handlePlayAgain ==
    /\ PlayAgainShown
    /\ CurrentPlaylist # {} => InFlight < MaxInFlight
    /\ timer' = 0
    /\ queuedTicks' = 0
    /\ isGuessing' = FALSE
    /\ titleGuess' = << >>
    /\ artistGuess' = << >>
    /\ result' = NoResult
    /\ hasStartedPlaying' = StartedAfterReset
    /\ queued' = [queued EXCEPT !.guessing = << >>, !.started = << >>]
    /\ roundSubmits' = 0
    /\ pendingSelect' =
          IF CurrentPlaylist = {} THEN pendingSelect
          ELSE StartSelect(CHOOSE p \in CurrentPlaylist : TRUE)
    /\ Commit(FALSE, [track |-> FALSE, timer |-> TRUE],
              TimerCondition(isPlaying, hasStartedPlaying', isGuessing',
                             result'),
              isInitialized, Stale(FlushedPlay))
    /\ onPlayAgainCalls' = onPlayAgainCalls + 1
    /\ ownPlayDone' = FALSE
    /\ UNCHANGED << playlists, currentTrack, playedTracks, error, mounted,
                    isPlaying, isInitialized, playerError, pendingToggle,
                    gameHistory, gameComplete, scoreVars >>

\* The interval callback of lines 41-43 fires for an interval that is still
\* active: setTimer(prev => prev + 0.1) queues the update and the callback
\* returns; nothing is rendered and no effect runs.
Tick ==
    /\ activeIntervals # {}
    /\ timer + queuedTicks < MaxTimer
    /\ queuedTicks' = queuedTicks + 1
    /\ UNCHANGED << appVars, mounted, roundVars, intervalRef,
                    activeIntervals, pendingEffects, queued, engineVars,
                    gameHistory, roundSubmits, scoreVars, callVars,
                    ownPlayDone >>

\* React renders the queued updates, all of them in one render, in a task
\* of its own; effects still pending run before the render.  A first track
\* mounts the GamePlayer, which schedules both effects; after that the
\* commit schedules the first effect (lines 26-37: cleanup, then
\* playTrack(track) if the player is initialized) if the track or
\* isInitialized changed, and the timer effect (lines 39-53) if one of its
\* dependencies changed.
Render ==
    /\ queued # NoneQueued \/ queuedTicks > 0
    /\ playlists' = Latest(queued.playlists, playlists)
    /\ currentTrack' = LatestTrack
    /\ playedTracks' = LatestPlayed
    /\ error' = LatestError
    /\ hasStartedPlaying' = Latest(queued.started, hasStartedPlaying)
    /\ isGuessing' = Latest(queued.guessing, isGuessing)
    /\ isPlaying' = LatestPlaying
    /\ isInitialized' = LatestInitialized
    /\ playerError' = LatestPlayerError
    /\ timer' = timer + queuedTicks
    /\ queuedTicks' = 0
    /\ queued' = NoneQueued
    /\ mounted' = (mounted \/ queued.track # << >>)
    /\ ownPlayDone' = (ownPlayDone /\ queued.track = << >>)
    /\ \E defer \in BOOLEAN :
          Commit(defer,
                 [track |-> \/ queued.track # << >>
                            \/ isInitialized' # isInitialized,
                  timer |-> \/ ~mounted /\ mounted'
                            \/ isPlaying' # isPlaying
                            \/ hasStartedPlaying' # hasStartedPlaying
                            \/ isGuessing' # isGuessing],
                 TimerCondition(isPlaying', hasStartedPlaying', isGuessing',
                                result),
                 isInitialized', FlushedPlay)
    /\ UNCHANGED << pendingSelect, titleGuess, artistGuess, result,
                    pendingToggle, gameHistory, roundSubmits, scoreVars,
                    callVars >>

\* The effects deferred by the last commit run, in a task of their own.
FlushEffects ==
    /\ pendingEffects # NoEffects
    /\ Rerender
    /\ KeepQueued
    /\ UNCHANGED << appVars, mounted, roundFlags, isPlaying, isInitialized,
                    playerError, pendingToggle, gameHistory, roundSubmits,
                    scoreVars, callVars, ownPlayDone >>

\* The page is left and the component tree is torn down: the cleanups of
\* both effects run (lines 32-36 and 48-52), each clearing the interval of
\* intervalRef.current.  The component's state is dropped with it, and the
\* callbacks of the calls still in flight find nothing to update.
Unmount ==
    /\ mounted
    /\ mounted' = FALSE
    /\ playlists' = "closed"
    /\ activeIntervals' = Cleared(Cleared(Flushed)).active
    /\ intervalRef' = 0
    /\ pendingEffects' = NoEffects
    /\ queuedTicks' = 0
    /\ queued' = NoneQueued
    /\ timer' = 0
    /\ isGuessing' = FALSE
    /\ titleGuess' = << >>
    /\ artistGuess' = << >>
    /\ result' = NoResult
    /\ hasStartedPlaying' = FALSE
    /\ roundSubmits' = 0
    /\ ownPlayDone' = FALSE
    /\ pendingSelect' = EmptyBag
    /\ pendingPlay' = NoPlay
    /\ pendingToggle' = 0
    /\ UNCHANGED << currentTrack, playedTracks, error, isPlaying,
                    isInitialized, playerError, gameHistory, scoreVars,
                    callVars >>

-----------------------------------------------------------------------------
Next ==
    \/ \E kind \in PlaylistKinds : PlaylistsLoaded(kind)
    \/ PlaylistsFailed
    \/ \E p \in PlaylistIds : handlePlaylistSelect(p)
    \/ \E call \in BagToSet(pendingSelect) : SelectResolved(call)
    \/ \E call \in BagToSet(pendingSelect) : SelectRejected(call)
    \/ PlayerReady
    \/ PlayerError
    \/ \E stale \in BOOLEAN : PlayTrackResolved(stale)
    \/ \E stale \in BOOLEAN : PlayTrackRejected(stale)
    \/ handlePauseAndGuess
    \/ TogglePlaybackDone
    \/ TogglePlaybackFailed
    \/ \E s \in GuessStrings : RoundsLeft(MaxHistory) /\ setTitleGuess(s)
    \/ \E s \in GuessStrings : RoundsLeft(MaxHistory) /\ setArtistGuess(s)
    \/ (result = NoResult => RoundsLeft(MaxHistory)) /\ handleSubmitGuess
    \/ handlePlayAgain
    \/ Tick
    \/ Render
    \/ FlushEffects
    \/ Unmount

Spec == Init /\ [][Next]_vars

-----------------------------------------------------------------------------
(* The score calculator on its own: the similarities and the timer are     *)
(* drawn from their ranges, and the result is what calculateScore returns  *)
(* for them (lines 63-69).                                                 *)

Similarities == {Rat(k, SimDen) : k \in 0..SimDen}

InitScore ==
    /\ playlists = "unloaded"
    /\ currentTrack = NoTrack
    /\ playedTracks = {}
    /\ error = NoError
    /\ pendingSelect = EmptyBag
    /\ mounted = FALSE
    /\ timer \in 0..MaxElapsed
    /\ isGuessing = FALSE
    /\ titleGuess = << >>
    /\ artistGuess = << >>
    /\ simTitle \in Similarities
    /\ simArtist \in Similarities
    /\ result = ScoreOf(simTitle, simArtist, timer)
    /\ hasStartedPlaying = FALSE
    /\ intervalRef = 0
    /\ activeIntervals = {}
    /\ pendingEffects = NoEffects
    /\ queuedTicks = 0
    /\ queued = NoneQueued
    /\ isPlaying = FALSE
    /\ isInitialized = FALSE
    /\ playerError = NoError
    /\ pendingPlay = NoPlay
    /\ pendingToggle = 0
    /\ gameHistory = << >>
    /\ roundSubmits = 0
    /\ gameComplete = << >>
    /\ onPlayAgainCalls = 0
    /\ ownPlayDone = FALSE

\* the timer is one tick further when the score is calculated
ScoreTick ==
    /\ timer < MaxElapsed + 1
    /\ timer' = timer + 1
    /\ result' = ScoreOf(simTitle, simArtist, timer')
    /\ UNCHANGED << appVars, mounted, isGuessing, titleGuess, artistGuess,
                    hasStartedPlaying, timerVars, queued, engineVars,
                    gameHistory, roundSubmits, scoreVars, callVars,
                    ownPlayDone >>

\* the guesses are one step closer to the track's title and artist
ScoreCloser ==
    /\ \E ts \in Similarities, as \in Similarities :
          /\ ts.num + as.num = simTitle.num + simArtist.num + 1
          /\ ts.num >= simTitle.num /\ as.num >= simArtist.num
          /\ simTitle' = ts
          /\ simArtist' = as
    /\ result' = ScoreOf(simTitle', simArtist', timer)
    /\ UNCHANGED << appVars, mounted, timer, isGuessing, titleGuess,
                    artistGuess, hasStartedPlaying, timerVars, queued,
                    engineVars, gameHistory, roundSubmits, callVars,
                    ownPlayDone >>

NextScore == ScoreTick \/ ScoreCloser

SpecScore == InitScore /\ [][NextScore]_vars

-----------------------------------------------------------------------------
(* Claims about the score calculator (checked under SpecScore)             *)

\* similarity s, as an exact rational, exceeds 0.8 = 4/5
Exceeds80(s) == 5 * s.num > 4 * s.den

BothExact == simTitle.num = simTitle.den /\ simArtist.num = simArtist.den

\* C1: for similarities in [0,1] and any elapsed time, the score is an
\* integer in 0..100.
C1_ScoreWithin0To100 == result.score \in 0..100

\* round(averageSimilarity*80 + timeBonus*20) for the state's inputs, as the
\* claim C2 states it: timeBonus = max(0, 1 - elapsed/30), elapsed = timer/10 s
C2Formula ==
    LET S == simTitle.num * simArtist.den + simArtist.num * simTitle.den
        P == simTitle.den * simArtist.den
        B == IF timer >= 300 THEN 0 ELSE 300 - timer
    IN  (2 * (80 * S * 300 + 20 * B * 2 * P) + 2 * P * 300)
            \div (2 * (2 * P * 300))

\* C2: the score is round(avgSimilarity*80 + timeBonus*20); with both
\* guesses exact and no time elapsed it is 100, and the round is correct.
C2_ScoreIsWeightedSum ==
    /\ result.score = C2Formula
    /\ (BothExact /\ timer = 0) => (result.score = 100 /\ result.isCorrect)

\* C8: the round is correct iff both similarities exceed 0.8, whatever the
\* elapsed time and the score.
C8_CorrectIffBothExceed ==
    result.isCorrect <=> (Exceeds80(simTitle) /\ Exceeds80(simArtist))

\* a correct round that is not an exact match, scored after the time bonus
\* has run out
C8_Witness ==
    /\ result.isCorrect
    /\ timer >= 300
    /\ ~BothExact

\* C9: with the similarities fixed, a later submission never scores higher.
C9_ScoreNonIncreasingInTime ==
    [][(simTitle' = simTitle /\ simArtist' = simArtist /\ timer' >= timer)
          => result'.score <= result.score]_vars

\* the time bonus has run out (30 s) after the score dropped on the way
C9_Witness ==
    /\ timer = 300
    /\ result.score < ScoreOf(simTitle, simArtist, 0).score
    /\ result.score = ScoreOf(simTitle, simArtist, MaxElapsed).score

-----------------------------------------------------------------------------
(* The round's phases (section 4.3), read off the component's state        *)

Scored == mounted /\ result # NoResult
Guessing == mounted /\ result = NoResult /\ isGuessing
Playing == mounted /\ result = NoResult /\ ~isGuessing /\ hasStartedPlaying
AwaitingPlayback ==
    mounted /\ result = NoResult /\ ~isGuessing /\ ~hasStartedPlaying

-----------------------------------------------------------------------------
(* Claims about the game (checked under Spec)                              *)

\* C3: between mount or a play-again reset and the next reset,
\* handleSubmitGuess takes effect at most once: one result, one
\* onGameComplete call; a scored round has had exactly one.
C3_OneResultPerRound ==
    /\ roundSubmits <= 1
    /\ result # NoResult <=> roundSubmits = 1

\* a round is scored, with a second pause-and-guess still in flight
C3_Witness ==
    /\ roundSubmits = 1
    /\ Scored
    /\ Len(gameHistory) = 1
    /\ pendingToggle > 0

\* C4: whenever a selection sets currentTrack, the track chosen was not in
\* the played set at that moment (the set as the updates made so far leave
\* it), also when selections overlap.
C4_ChosenTrackWasUnplayed ==
    [][\A call \in BagToSet(pendingSelect) :
          (SelectResolved(call) /\ ValidTracks(call) # {})
              => queued'.track[1] \notin LatestPlayed]_vars

\* C5: a selection started on a playlist whose valid tracks were all played
\* already sets the "no more unplayed tracks" message and leaves
\* currentTrack and playedTracks as they are: no update of them is made.
C5_NothingLeftSelectsNothing ==
    [][\A call \in BagToSet(pendingSelect) :
          (/\ SelectResolved(call)
           /\ \A t \in PlaylistItems(call.playlist) :
                 validateTrack(t) => t \in call.played)
              => /\ LatestError' = "No more unplayed tracks in this playlist!"
                 /\ LatestTrack' = LatestTrack
                 /\ LatestPlayed' = LatestPlayed
                 /\ queued'.track = queued.track
                 /\ currentTrack' = currentTrack
                 /\ playedTracks' = playedTracks]_vars

\* the message is up, the track and the played set are those of the round
C5_Witness ==
    /\ error = "No more unplayed tracks in this playlist!"
    /\ currentTrack # NoTrack
    /\ playedTracks = {currentTrack}

\* C6: once the session is Guessing, or a pause-and-guess is already in
\* flight, handlePauseAndGuess does nothing more: no further togglePlayback
\* is requested, and none that completes in Guessing changes the playback
\* state or the session state.
C6_PauseAndGuessIdempotent ==
    [][/\ (isGuessing \/ pendingToggle > 0) => pendingToggle' <= pendingToggle
       /\ (isGuessing /\ TogglePlaybackDone)
              => (LatestPlaying' = LatestPlaying /\ UNCHANGED roundVars
                     /\ queued'.guessing = queued.guessing)]_vars

\* C7: while the engine's error is present and the session is in
\* AwaitingPlayback, the session stays there: hasStartedPlaying is not set,
\* the timer does not advance, and neither Guessing nor Scored is entered.
C7_ErrorBlocksProgress ==
    [][(playerError # NoError /\ AwaitingPlayback)
          => /\ hasStartedPlaying' = hasStartedPlaying
             /\ timer' = timer
             /\ isGuessing' = isGuessing
             /\ result' = result]_vars

\* C10: a rejected getPlaylistTracks sets the "Failed to load tracks"
\* message and leaves currentTrack and playedTracks as they are; a
\* selection that succeeds afterwards clears the message.
C10_LoadFailureIsReported ==
    [][\A call \in BagToSet(pendingSelect) :
          /\ SelectRejected(call)
                => /\ LatestError' = "Failed to load tracks. Please try again."
                   /\ LatestTrack' = LatestTrack
                   /\ LatestPlayed' = LatestPlayed
                   /\ queued'.track = queued.track
                   /\ currentTrack' = currentTrack
                   /\ playedTracks' = playedTracks
          /\ (SelectResolved(call) /\ ValidTracks(call) # {})
                => LatestError' = NoError]_vars

\* a play-again selection failed: the message is up and the round's track
\* is still the current one
C10_Witness ==
    /\ error = "Failed to load tracks. Please try again."
    /\ currentTrack # NoTrack
    /\ currentTrack \in playedTracks

\* C11: a round moves AwaitingPlayback -> Playing -> Guessing -> Scored:
\* Playing is entered only from AwaitingPlayback, Guessing only from
\* Playing, Scored only from Guessing, and AwaitingPlayback is entered again
\* only by the play-again reset taken in Scored.
C11_RoundMovesForward ==
    [][(mounted /\ mounted')
          => /\ (Playing' /\ ~Playing) => AwaitingPlayback
             /\ (Guessing' /\ ~Guessing) => Playing
             /\ (Scored' /\ ~Scored) => Guessing
             /\ (AwaitingPlayback' /\ ~AwaitingPlayback)
                    => (Scored /\ onPlayAgainCalls' = onPlayAgainCalls + 1)]_vars

\* C12: a playTrack promise issued for an earlier round or an earlier track
\* that fulfils after the reset or the track change leaves the state of the
\* round as it is: hasStartedPlaying is not set by it, no update of it is
\* queued.
C12_StalePlayIsIgnored ==
    [][PlayTrackResolved(TRUE)
          => UNCHANGED << roundVars, queued.started >>]_vars

\* C13: the timer advances only after the playTrack call issued for the
\* round's current track has fulfilled.
C13_NoTickBeforeOwnPlay ==
    [][timer' > timer => ownPlayDone]_vars

\* C14: the timer changes only by a tick taken while the session is Playing
\* with the engine playing, or by the play-again reset taken in Scored (or
\* with the teardown of the component); so it stands still in Guessing and
\* in Scored, and the time recorded by a submission is the time at which
\* Guessing was entered.
C14_TimerChangesOnlyWhilePlaying ==
    [][/\ timer' # timer
          => \/ timer' = timer + 1 /\ Playing /\ isPlaying
             \/ timer' = 0 /\ Scored /\ AwaitingPlayback'
             \/ ~mounted'
       /\ (GuessFormShown /\ handleSubmitGuess)
          => gameHistory'[Len(gameHistory')].time = timer]_vars

\* C15: at most one interval is active, it is the one of intervalRef.current
\* and it is active only while the component is mounted and the condition
\* of the timer effect holds; a track change leaves no interval of the
\* earlier track active (an interval active after the change was created by
\* the effects of the change, which have run).
C15_NoIntervalLeaks ==
    /\ [](/\ Cardinality(activeIntervals) <= 1
          /\ activeIntervals \subseteq {intervalRef}
          /\ activeIntervals # {}
                => /\ mounted
                   /\ TimerCondition(isPlaying, hasStartedPlaying,
                                     isGuessing, result))
    /\ [][(currentTrack' # currentTrack /\ pendingEffects' # NoEffects)
              => activeIntervals' = {}]_vars

C17_PlayAgainResets ==
    [][(Scored /\ mounted' /\ result' = NoResult)
          => /\ timer' = 0
             /\ titleGuess' = << >>
             /\ artistGuess' = << >>
             /\ ~isGuessing'
             /\ ~hasStartedPlaying'
             /\ onPlayAgainCalls' = onPlayAgainCalls + 1]_vars

\* play-again was taken after a round that was scored at time 1 with
\* playback started: the round state is fresh
C17_Witness ==
    /\ AwaitingPlayback
    /\ onPlayAgainCalls = 1
    /\ Len(gameHistory) = 1
    /\ gameHistory[1].time = 1
    /\ timer = 0
    /\ titleGuess = << >>
    /\ artistGuess = << >>

\* C18: a play-again request is not dropped: the call of onPlayAgain starts
\* a selection (whose completion sets a new track or a message), or sets a
\* track or a message itself.
C18_PlayAgainIsNotDropped ==
    [][onPlayAgainCalls' > onPlayAgainCalls
          => \/ pendingSelect' # pendingSelect
             \/ currentTrack' # currentTrack
             \/ error' # error]_vars

\* C19: whenever the session is Guessing, the engine is not playing.
C19_GuessingIsPaused == Guessing => ~isPlaying

\* C20: no id is ever removed from the played set, and a current track is
\* always in it, also when selections overlap.
C20_PlayedSetGrows ==
    /\ [](/\ currentTrack # NoTrack => currentTrack \in playedTracks
          /\ LatestTrack # NoTrack => LatestTrack \in LatestPlayed
          /\ playedTracks \subseteq LatestPlayed)
    /\ [][playedTracks \subseteq playedTracks']_vars

\* a selection started before the played set last grew is still in flight
C20_Witness ==
    /\ currentTrack # NoTrack
    /\ Cardinality(playedTracks) = 2
    /\ \E call \in BagToSet(pendingSelect) : call.played # playedTracks

====
